---- MODULE Spec2Model ----
(***************************************************************************)
(* Market-data quote path of sea-stocks: AlphaVantageService (getQuote,    *)
(* getMultipleQuotes, getCompanyInfo, searchSymbols, validateSymbol) over  *)
(* PriceCacheService and the priceCache table of SqlDatabaseService.       *)
(*                                                                         *)
(* Time is counted in seconds.  Prices, changes and percents are counted   *)
(* in hundredths (175.25 is 17525).  A JavaScript number or Date is a      *)
(* record [nan, v]: NaN and Invalid Date are [nan |-> TRUE, v |-> 0].      *)
(* An async method is one action per stretch between two awaits.           *)
(***************************************************************************)
EXTENDS Integers, Sequences, FiniteSets, TLC

VARIABLES
  useMockData,         \* AlphaVantageService.useMockData (no API key)
  cacheExpiryMinutes,  \* PriceCacheService.cacheExpiryMinutes
  now,                 \* the wall clock, seconds
  priceCache,          \* rows of the priceCache table (symbol is unique)
  fetchCount,          \* requests sent to the upstream API so far
  call,                \* per caller: the position inside the running method
  lastLive,            \* the latest getQuote return, if a live quote that was cached
  holdings,            \* rows of the holding table of one portfolio, newest first
  req,                 \* per caller: the route handler it runs, and where it is
  served,              \* route requests taken so far
  portfolios,          \* rows of the portfolio table
  others,              \* rows of the holding table of the second portfolio
  form                 \* AddHoldingForm: its state in the browser

vars == <<useMockData, cacheExpiryMinutes, now, priceCache, fetchCount,
          call, lastLive, holdings, req, served, portfolios, others, form>>

\* the holding table and the route handlers
portfolioVars == <<holdings, req, served>>

\* the portfolio table, the second portfolio's holdings and the form
folioVars == <<portfolios, others, form>>

(***************************************************************************)
(* Bounds of the model.                                                    *)
(***************************************************************************)
MaxTime == 12
MaxFetches == 2
MaxSymbols == 2
MaxRequests == 2

Procs == {1}
\* the callers there are; Procs are those of the sequential specifications
Callers == {1, 2}
TickSteps == {6, 12}

(***************************************************************************)
(* Program constants.                                                      *)
(***************************************************************************)
DefaultExpiryMinutes == 5
SleepMs == 12000

SleepSeconds == SleepMs \div 1000

\* The expiry windows a PriceCacheService is constructed with: the default,
\* and 0.
ExpiryChoices == {DefaultExpiryMinutes, 0}

(***************************************************************************)
(* JavaScript values.                                                      *)
(***************************************************************************)
Num(n) == [nan |-> FALSE, v |-> n]
NaN == [nan |-> TRUE, v |-> 0]
Undefined == "<undefined>"

\* A labelled string field of the upstream response, by what parseFloat,
\* parseInt and new Date make of it.
Raw(n) == [k |-> "num", v |-> n]
Missing == [k |-> "missing", v |-> 0]
Empty == [k |-> "empty", v |-> 0]
Garbage == [k |-> "garbage", v |-> 0]

Falsy(f) == f.k \in {"missing", "empty"}
ParseFloat(f) == IF f.k = "num" THEN Num(f.v) ELSE NaN
ParseInt(f) == IF f.k = "num" THEN Num(f.v) ELSE NaN
NewDate(f) == IF f.k = "num" THEN Num(f.v) ELSE NaN

\* toUpperCase leaving the string as it is
ToUpperCaseIdentity(s) == s

LowerCased == [s \in {"aapl", "zzzz"} |-> IF s = "aapl" THEN "AAPL" ELSE "ZZZZ"]
ToUpperCase(s) == IF s \in DOMAIN LowerCased THEN LowerCased[s] ELSE s

Symbols == {"AAPL", "aapl", "ZZZZ"}

(***************************************************************************)
(* The static tables.                                                      *)
(***************************************************************************)
MockRow(p, c, cp, v) == [price |-> p, change |-> c, changePercent |-> cp, volume |-> v]

mockData ==
  [s \in {"AAPL", "GOOGL", "TSLA", "MSFT", "NVDA", "META", "AMZN", "NFLX",
          "SPY", "QQQ", "F", "GM"} |->
     CASE s = "AAPL"  -> MockRow(17525, 215, 124, 65432100)
       [] s = "GOOGL" -> MockRow(284575, -1525, -53, 1234567)
       [] s = "TSLA"  -> MockRow(24580, 825, 348, 45678901)
       [] s = "MSFT"  -> MockRow(41560, 540, 132, 23456789)
       [] s = "NVDA"  -> MockRow(87545, 1275, 148, 34567890)
       [] s = "META"  -> MockRow(48520, -830, -168, 18765432)
       [] s = "AMZN"  -> MockRow(16575, 325, 200, 41234567)
       [] s = "NFLX"  -> MockRow(42580, -245, -57, 8765432)
       [] s = "SPY"   -> MockRow(48560, 185, 38, 78901234)
       [] s = "QQQ"   -> MockRow(39540, 220, 56, 56789012)
       [] s = "F"     -> MockRow(1125, 15, 135, 89012345)
       [] s = "GM"    -> MockRow(3875, -85, -215, 12345678)]

\* getMockQuote looking the symbol up as it was typed
getMockQuoteCaseSensitive(symbol, t) ==
  IF symbol \notin DOMAIN mockData THEN <<>>
  ELSE LET data == mockData[symbol]
       IN <<[symbol |-> symbol,
             price |-> Num(data.price),
             change |-> Num(data.change),
             changePercent |-> Num(data.changePercent),
             volume |-> Num(data.volume),
             lastUpdated |-> Num(t)]>>

\* getMockQuote without "if (!data) return null"
getMockQuoteNoNullCheck(symbol, t) ==
  IF ToUpperCase(symbol) \notin DOMAIN mockData
  THEN <<[symbol |-> ToUpperCase(symbol), price |-> NaN, change |-> NaN,
          changePercent |-> NaN, volume |-> NaN, lastUpdated |-> Num(t)]>>
  ELSE LET data == mockData[ToUpperCase(symbol)]
       IN <<[symbol |-> ToUpperCase(symbol),
             price |-> Num(data.price),
             change |-> Num(data.change),
             changePercent |-> Num(data.changePercent),
             volume |-> Num(data.volume),
             lastUpdated |-> Num(t)]>>

\* getMockQuote: null (the empty sequence) or the one quote
getMockQuote(symbol, t) ==
  IF ToUpperCase(symbol) \notin DOMAIN mockData THEN <<>>
  ELSE LET data == mockData[ToUpperCase(symbol)]
       IN <<[symbol |-> ToUpperCase(symbol),
             price |-> Num(data.price),
             change |-> Num(data.change),
             changePercent |-> Num(data.changePercent),
             volume |-> Num(data.volume),
             lastUpdated |-> Num(t)]>>

mockCompanies ==
  [s \in DOMAIN mockData |->
     CASE s \in {"AAPL", "GOOGL", "MSFT", "NVDA", "META"} -> "Technology"
       [] s \in {"TSLA", "AMZN", "F", "GM"} -> "Consumer Discretionary"
       [] s = "NFLX" -> "Communication Services"
       [] s \in {"SPY", "QQQ"} -> "ETF"]

getMockCompanyInfo(symbol) ==
  IF ToUpperCase(symbol) \notin DOMAIN mockCompanies THEN <<>>
  ELSE <<[symbol |-> ToUpperCase(symbol), sector |-> mockCompanies[ToUpperCase(symbol)]]>>

(***************************************************************************)
(* The priceCache table and PriceCacheService.                             *)
(***************************************************************************)
findBySymbol(symbol) == {r \in priceCache : r.symbol = ToUpperCase(symbol)}

\* The Decimal, BigInt and DateTime columns hold no NaN and no Invalid Date:
\* the client rejects such a row.
Storable(data) ==
  /\ ~data.price.nan
  /\ ~data.change.nan
  /\ ~data.changePercent.nan
  /\ ~data.volume.nan
  /\ ~data.lastUpdated.nan

\* upsert whose update branch leaves lastUpdated out
upsertKeepsStamp(data) ==
  IF \E r \in priceCache : r.symbol = ToUpperCase(data.symbol)
  THEN {r \in priceCache : r.symbol # ToUpperCase(data.symbol)}
         \cup {[data EXCEPT !.symbol = ToUpperCase(data.symbol),
                            !.lastUpdated = r.lastUpdated] :
                  r \in {x \in priceCache : x.symbol = ToUpperCase(data.symbol)}}
  ELSE {r \in priceCache : r.symbol # ToUpperCase(data.symbol)}
         \cup {[data EXCEPT !.symbol = ToUpperCase(data.symbol)]}

\* The table after priceCache.upsert(data)
upsert(data) ==
  {r \in priceCache : r.symbol # ToUpperCase(data.symbol)}
    \cup {[data EXCEPT !.symbol = ToUpperCase(data.symbol)]}

\* The table after priceCache.deleteBySymbol(symbol)
deleteBySymbol(symbol) == {r \in priceCache : r.symbol # ToUpperCase(symbol)}

\* The table after priceCache.deleteAll()
deleteAll == {}

\* CacheExpired with the age left in seconds against a window in hours
CacheExpiredWrongUnit(cached, t) ==
  /\ ~cached.lastUpdated.nan
  /\ t - cached.lastUpdated.v > cacheExpiryMinutes * 3600

\* cacheAge > this.cacheExpiryMinutes, cacheAge being the age in minutes
\* (a comparison with NaN is false)
CacheExpired(cached, t) ==
  /\ ~cached.lastUpdated.nan
  /\ t - cached.lastUpdated.v > cacheExpiryMinutes * 60

Miss == [threw |-> FALSE, val |-> <<>>]

\* getCachedPrice without its try/catch
getCachedPriceUncaught(symbol, dbOk, t) ==
  IF ~dbOk THEN [threw |-> TRUE, val |-> <<>>]
  ELSE LET rows == findBySymbol(ToUpperCase(symbol))
       IN IF rows = {} \/ CacheExpired(CHOOSE r \in rows : TRUE, t) THEN Miss
          ELSE [threw |-> FALSE, val |-> <<CHOOSE r \in rows : TRUE>>]

\* getCachedPrice at time t; dbOk = FALSE is a failing database call
getCachedPrice(symbol, dbOk, t) ==
  IF ~dbOk THEN Miss
  ELSE LET rows == findBySymbol(ToUpperCase(symbol))
       IN IF rows = {} THEN Miss
          ELSE LET cached == CHOOSE r \in rows : TRUE
               IN IF CacheExpired(cached, t) THEN Miss
                  ELSE [threw |-> FALSE,
                        val |-> <<[symbol |-> cached.symbol,
                                   price |-> cached.price,
                                   change |-> cached.change,
                                   changePercent |-> cached.changePercent,
                                   volume |-> cached.volume,
                                   lastUpdated |-> cached.lastUpdated]>>]

\* setCachedPrice stamping the row with the time of the write
setCachedPriceStampsNow(quote, dbOk) ==
  IF quote.symbol # Undefined /\ dbOk /\ ~quote.price.nan /\ ~quote.change.nan
     /\ ~quote.changePercent.nan /\ ~quote.volume.nan
  THEN {r \in priceCache : r.symbol # ToUpperCase(quote.symbol)}
         \cup {[symbol |-> ToUpperCase(quote.symbol),
                 price |-> quote.price,
                 change |-> quote.change,
                 changePercent |-> quote.changePercent,
                 volume |-> quote.volume,
                 lastUpdated |-> Num(now)]}
  ELSE priceCache

\* setCachedPrice(quote) reaches the table: no throw inside.  A throw
\* (toUpperCase of an undefined symbol, a failing or rejected upsert) is
\* caught and dropped.  quote.lastUpdated || new Date() is quote.lastUpdated:
\* every Date object, an Invalid Date too, is truthy.
Upserts(quote, dbOk) ==
  /\ quote.symbol # Undefined
  /\ dbOk
  /\ Storable(quote)

\* The table after setCachedPrice(quote)
setCachedPrice(quote, dbOk) ==
  IF Upserts(quote, dbOk)
  THEN upsert([symbol |-> ToUpperCase(quote.symbol),
               price |-> quote.price,
               change |-> quote.change,
               changePercent |-> quote.changePercent,
               volume |-> quote.volume,
               lastUpdated |-> quote.lastUpdated])
  ELSE priceCache

(***************************************************************************)
(* The upstream API: what one GLOBAL_QUOTE request can come back with.     *)
(***************************************************************************)
LivePrices == {15000}
\* a price string with a minus sign, as parseFloat reads it
NegativePrice == 0 - 100
TradingDays == {-300, 6}

Good(s, p, d) ==
  [transport |-> "ok", json |-> TRUE, note |-> FALSE, hasQuote |-> TRUE,
   symbol |-> s, price |-> Raw(p), change |-> Raw(125), percent |-> Raw(84),
   volume |-> Raw(1000), day |-> Raw(d)]

Responses(symbol) ==
  LET g == Good(ToUpperCase(symbol), 15000, -300)
  IN {Good(ToUpperCase(symbol), p, d) : p \in LivePrices, d \in TradingDays}
     \cup {[g EXCEPT !.transport = "throw"],
           [g EXCEPT !.transport = "non2xx"],
           [g EXCEPT !.json = FALSE],
           [g EXCEPT !.note = TRUE],
           [g EXCEPT !.hasQuote = FALSE],
           [g EXCEPT !.price = Missing],
           [g EXCEPT !.price = Empty],
           [g EXCEPT !.price = Garbage],
           [g EXCEPT !.price = Raw(NegativePrice)],
           [g EXCEPT !.change = Garbage],
           [g EXCEPT !.percent = Missing],
           [g EXCEPT !.percent = Garbage],
           [g EXCEPT !.volume = Garbage],
           [g EXCEPT !.day = Garbage],
           [g EXCEPT !.symbol = Undefined]}

(***************************************************************************)
(* AlphaVantageService.getQuote after the cache miss, with an API key:     *)
(* the return statement taken (path) and the value (val: <<>> is null).    *)
(***************************************************************************)
Out(path, val) == [path |-> path, val |-> val]

\* a non-2xx answer taken for an unknown symbol
OnNotOkNull(symbol, t) == Out("notOk", <<>>)

\* if (!response.ok) return this.getMockQuote(symbol)
OnNotOk(symbol, t) == Out("notOk", getMockQuote(symbol, t))

\* if (data['Note'] || data['Error Message']) return this.getMockQuote(symbol)
OnApiError(symbol, t) == Out("apiError", getMockQuote(symbol, t))

\* the fallback quote sent down the caching path
OnCatchCached(symbol, t) ==
  IF getMockQuote(symbol, t) = <<>> THEN Out("catch", <<>>)
  ELSE Out("live", getMockQuote(symbol, t))

\* catch (error) { return this.getMockQuote(symbol) }
OnCatch(symbol, t) == Out("catch", getMockQuote(symbol, t))

\* if (!quote || !quote['05. price']) return null
NoData(resp) == ~resp.hasQuote \/ Falsy(resp.price)

\* const stockQuote: StockQuote = {...}
BuildQuote(resp) ==
  [symbol |-> resp.symbol,
   price |-> ParseFloat(resp.price),
   change |-> ParseFloat(resp.change),
   changePercent |-> ParseFloat(resp.percent),
   volume |-> ParseInt(resp.volume),
   lastUpdated |-> NewDate(resp.day)]

LiveOutcome(symbol, resp, t) ==
  IF resp.transport = "throw" THEN OnCatch(symbol, t)
  ELSE IF resp.transport = "non2xx" THEN OnNotOk(symbol, t)
  ELSE IF ~resp.json THEN OnCatch(symbol, t)
  ELSE IF resp.note THEN OnApiError(symbol, t)
  ELSE IF NoData(resp) THEN Out("noData", <<>>)
  ELSE IF resp.percent.k = "missing" THEN OnCatch(symbol, t)
  ELSE Out("live", <<BuildQuote(resp)>>)

\* getQuote sending its request again after a rate-limit answer
RetriesOnApiError(out) == out.path = "apiError"

\* getQuote has no loop around its fetch: every branch after it returns
Retries(out) == FALSE

\* getCompanyInfo without "if (this.useMockData)"
getCompanyInfoRequestsAlways == IF useMockData THEN 1 ELSE 1

\* getCompanyInfo and searchSymbols: the upstream requests one call sends
getCompanyInfoRequests == IF useMockData THEN 0 ELSE 1
searchSymbolsRequests == IF useMockData THEN 0 ELSE 1

(***************************************************************************)
(* Callers.  call[p] is the position of caller p inside getQuote,          *)
(* validateSymbol or getMultipleQuotes.  pc = "ret": getQuote has returned *)
(* res to the method that called it; pc = "done": getMultipleQuotes has    *)
(* returned quotes.                                                        *)
(***************************************************************************)
NoRes == [path |-> "", val |-> <<>>, threw |-> FALSE]

Idle ==
  [op |-> "idle", pc |-> "idle", sym |-> "", tStart |-> 0, tEnd |-> 0,
   fetches |-> 0, wrote |-> FALSE, readAge |-> <<>>, readErr |-> FALSE,
   resp |-> "", quote |-> <<>>, res |-> NoRes, after |-> <<>>,
   symbols |-> <<>>, i |-> 0, quotes |-> <<>>, results |-> <<>>,
   starts |-> <<>>, ends |-> <<>>,
   sleeps |-> 0, wake |-> 0, threw |-> FALSE]

\* caller c enters getQuote(symbol) at time t
EnterGetQuote(c, symbol, t) ==
  [c EXCEPT !.pc = "cacheRead", !.sym = symbol, !.tStart = t, !.tEnd = 0,
            !.fetches = 0, !.wrote = FALSE, !.readAge = <<>>, !.readErr = FALSE,
            !.resp = "", !.quote = <<>>, !.res = NoRes, !.after = <<>>]

\* quotes.unshift(quote) in place of quotes.push(quote)
PushQuoteInFront(quotes, quote) ==
  IF quote # <<>> THEN <<quote[1]>> \o quotes ELSE quotes

\* if (quote) { quotes.push(quote) }
PushQuote(quotes, quote) ==
  IF quote # <<>> THEN Append(quotes, quote[1]) ELSE quotes

\* getMultipleQuotes without the delay
ShouldSleepNever(i, n) == FALSE

\* the delay taken without looking at useMockData
ShouldSleepWithoutKey(i, n) == i < n - 1

\* if (!this.useMockData && i < symbols.length - 1)
ShouldSleep(i, n) == ~useMockData /\ i < n - 1

SymbolLists == UNION {[1..n -> Symbols] : n \in 0..MaxSymbols}

\* What the upstream answer was, for the reader of a trace
RespClass(resp) ==
  IF resp.transport # "ok" THEN "transport"
  ELSE IF ~resp.json THEN "undecodable"
  ELSE IF resp.note THEN "indicator"
  ELSE IF ~resp.hasQuote THEN "noQuote"
  ELSE IF Falsy(resp.price) THEN "noPrice"
  ELSE IF resp.percent.k = "missing" THEN "noPercent"
  ELSE IF "garbage" \in {resp.price.k, resp.change.k, resp.percent.k,
                         resp.volume.k, resp.day.k} THEN "unparsable"
  ELSE IF resp.symbol = Undefined THEN "noSymbol"
  ELSE "good"

\* getQuote of caller p returns res; c is the caller's record at that point.
\* after: the live quote that the getQuote call before this one fetched,
\* cached and returned, when that call was for the same symbol.
Finish(p, c, res) ==
  /\ call' = [call EXCEPT ![p] =
        [c EXCEPT !.pc = "ret", !.res = res, !.tEnd = now,
                  !.after = IF /\ lastLive # <<>>
                               /\ lastLive[1].sym = c.sym
                               /\ lastLive[1].tEnd <= c.tStart
                            THEN lastLive ELSE <<>>]]
  /\ lastLive' = IF res.path = "live" /\ c.wrote
                 THEN <<[sym |-> c.sym, val |-> res.val[1], tEnd |-> now]>>
                 ELSE <<>>

(***************************************************************************)
(* The holding table of one portfolio and what the route handlers          *)
(* createHolding, updatePortfolioPrices and editHolding compute.  A        *)
(* holding is named by its symbol, which is unique within the portfolio.   *)
(* infoCalls of a row counts the getCompanyInfo calls made for the         *)
(* holding: the one of the createHolding that created it and those of      *)
(* updatePortfolioPrices for its symbol.                                   *)
(***************************************************************************)
Null == "<null>"

\* the Sector string of a well-formed OVERVIEW answer
LiveSector == "TECHNOLOGY"

\* What one OVERVIEW request can come back with: a well-formed answer with
\* a Sector, one without, and a failure (a throw, a non-2xx status, a Note,
\* an Error Message, no Symbol).
InfoResponses == {"sector", "noSector", "failed"}

\* getCompanyInfo(symbol): null (the empty sequence) or the company info
getCompanyInfo(symbol, resp) ==
  IF useMockData \/ resp = "failed" THEN getMockCompanyInfo(symbol)
  ELSE <<[symbol |-> ToUpperCase(symbol),
          sector |-> IF resp = "sector" THEN LiveSector ELSE "Unknown"]>>

\* companyInfo?.sector || null
SectorOf(companyInfo) ==
  IF companyInfo = <<>> THEN Null ELSE companyInfo[1].sector

\* holding.findBySymbol(portfolioId, symbol), holding.findById(id)
holdingFindBySymbol(table, symbol) ==
  SelectSeq(table, LAMBDA h : h.symbol = symbol)

\* holding.update(id, {sector}), {currentPrice}, {shares}
updateSector(table, id, sector) ==
  [k \in DOMAIN table |->
     IF table[k].symbol = id THEN [table[k] EXCEPT !.sector = sector]
     ELSE table[k]]

updateCurrentPrice(table, id, price) ==
  [k \in DOMAIN table |->
     IF table[k].symbol = id THEN [table[k] EXCEPT !.currentPrice = price]
     ELSE table[k]]

\* editHolding's update with the sector in updateData, as null
updateSharesAndSector(table, id, shares) ==
  [k \in DOMAIN table |->
     IF table[k].symbol = id
     THEN [table[k] EXCEPT !.shares = shares, !.sector = Null]
     ELSE table[k]]

updateShares(table, id, shares) ==
  [k \in DOMAIN table |->
     IF table[k].symbol = id THEN [table[k] EXCEPT !.shares = shares]
     ELSE table[k]]

\* the count of getCompanyInfo calls for the holdings of symbol
CountInfoCall(table, symbol) ==
  [k \in DOMAIN table |->
     IF table[k].symbol = ToUpperCase(symbol)
     THEN [table[k] EXCEPT !.infoCalls = @ + 1]
     ELSE table[k]]

\* [...new Set(holdings.map(h => h.symbol))]
RECURSIVE Unique(_)
Unique(symbols) ==
  IF symbols = <<>> THEN <<>>
  ELSE <<symbols[1]>>
         \o Unique(SelectSeq(Tail(symbols), LAMBDA x : x # symbols[1]))

SymbolsOf(table) == Unique([k \in DOMAIN table |-> table[k].symbol])

\* quotes.find(q => q.symbol.toUpperCase() === symbol.toUpperCase()):
\* a quote without a symbol met before the match makes toUpperCase throw
RECURSIVE FindQuote(_, _)
FindQuote(quotes, symbol) ==
  IF quotes = <<>> THEN [threw |-> FALSE, val |-> <<>>]
  ELSE IF quotes[1].symbol = Undefined THEN [threw |-> TRUE, val |-> <<>>]
  ELSE IF ToUpperCase(quotes[1].symbol) = ToUpperCase(symbol)
  THEN [threw |-> FALSE, val |-> <<quotes[1]>>]
  ELSE FindQuote(Tail(quotes), symbol)

\* holdingsForSymbol.some(h => !h.sector)
NeedsSector(holdingsForSymbol) ==
  \E k \in DOMAIN holdingsForSymbol : holdingsForSymbol[k].sector = Null

\* for (const holding of holdingsForSymbol)
\*   if (!holding.sector) await holding.update(holding.id, {sector})
RECURSIVE WriteSectors(_, _, _)
WriteSectors(table, holdingsForSymbol, sector) ==
  IF holdingsForSymbol = <<>> THEN table
  ELSE WriteSectors(IF holdingsForSymbol[1].sector = Null
                    THEN updateSector(table, holdingsForSymbol[1].symbol, sector)
                    ELSE table,
                    Tail(holdingsForSymbol), sector)

\* for (const holding of holdings) { const update = priceUpdates.find(...);
\*   if (update) await holding.update(holding.id, {currentPrice}) }
\* The Decimal column takes no NaN: that update throws, the ones before it
\* stay done.
RECURSIVE ApplyPrices(_, _, _)
ApplyPrices(table, snapshot, priceUpdates) ==
  IF snapshot = <<>> THEN [threw |-> FALSE, table |-> table]
  ELSE LET update == SelectSeq(priceUpdates,
                       LAMBDA u : ToUpperCase(u.symbol) = ToUpperCase(snapshot[1].symbol))
       IN IF update = <<>> THEN ApplyPrices(table, Tail(snapshot), priceUpdates)
          ELSE IF update[1].price.nan THEN [threw |-> TRUE, table |-> table]
          ELSE ApplyPrices(
                 updateCurrentPrice(table, snapshot[1].symbol, update[1].price),
                 Tail(snapshot), priceUpdates)

\* no route handler running for the caller
NoRequest ==
  [op |-> "idle", pc |-> "idle", symbol |-> "", shares |-> 0, price |-> NaN,
   sector |-> Null, snapshot |-> <<>>, symbols |-> <<>>, k |-> 0,
   priceUpdates |-> <<>>, errors |-> 0, results |-> <<>>,
   status |-> 0, updated |-> 0, total |-> 0,
   user |-> "", pid |-> "", hpid |-> "", name |-> "", type |-> "", returned |-> <<>>]

\* AddHoldingForm as mounted: useState of formData.symbol, error and
\* validatingSymbol.  typed counts the input changes; checked is the
\* answer to the validation of the latest one, once it has come.
NoForm ==
  [symbol |-> "", error |-> Null, validatingSymbol |-> FALSE,
   typed |-> 0, checked |-> ""]

(***************************************************************************)
(* The state after construction.                                          *)
(***************************************************************************)
Init ==
  /\ useMockData \in BOOLEAN
  /\ cacheExpiryMinutes \in ExpiryChoices
  /\ now = 0
  /\ priceCache = {}
  /\ fetchCount = 0
  /\ call = [p \in Callers |-> Idle]
  /\ lastLive = <<>>
  /\ holdings = <<>>
  /\ req = [p \in Callers |-> NoRequest]
  /\ served = 0
  /\ portfolios = {}
  /\ others = <<>>
  /\ form = NoForm

(***************************************************************************)
(* Actions.                                                                *)
(***************************************************************************)
\* the clock with a background sweep that deletes the expired rows
TickSweeping ==
  /\ \E d \in TickSteps : now + d <= MaxTime /\ now' = now + d
  /\ priceCache' = {r \in priceCache : ~CacheExpired(r, now')}
  /\ UNCHANGED <<useMockData, cacheExpiryMinutes, folioVars, fetchCount, call, lastLive,
                 portfolioVars>>

Tick ==
  /\ \E d \in TickSteps : now + d <= MaxTime /\ now' = now + d
  /\ UNCHANGED <<useMockData, cacheExpiryMinutes, folioVars, priceCache, fetchCount,
                 call, lastLive,
                 portfolioVars>>

\* a caller calls getQuote(symbol)
BeginGetQuote(p) ==
  /\ call[p].pc = "idle"
  /\ \E symbol \in Symbols :
       call' = [call EXCEPT ![p] =
                  EnterGetQuote([Idle EXCEPT !.op = "getQuote"], symbol, now)]
  /\ UNCHANGED <<useMockData, cacheExpiryMinutes, folioVars, now, priceCache, fetchCount,
                 lastLive,
                 portfolioVars>>

\* a caller calls validateSymbol(symbol), which awaits getQuote(symbol)
BeginValidateSymbol(p) ==
  /\ call[p].pc = "idle"
  /\ \E symbol \in Symbols :
       call' = [call EXCEPT ![p] =
                  EnterGetQuote([Idle EXCEPT !.op = "validateSymbol"], symbol, now)]
  /\ UNCHANGED <<useMockData, cacheExpiryMinutes, folioVars, now, priceCache, fetchCount,
                 lastLive,
                 portfolioVars>>

\* a caller calls getMultipleQuotes(symbols)
BeginGetMultipleQuotes(p) ==
  /\ call[p].pc = "idle"
  /\ \E symbols \in SymbolLists :
       call' = [call EXCEPT ![p] =
          IF Len(symbols) = 0
          THEN [Idle EXCEPT !.op = "getMultipleQuotes", !.pc = "done"]
          ELSE EnterGetQuote([Idle EXCEPT !.op = "getMultipleQuotes",
                                          !.symbols = symbols,
                                          !.starts = <<[sym |-> symbols[1], t |-> now]>>],
                             symbols[1], now)]
  /\ UNCHANGED <<useMockData, cacheExpiryMinutes, folioVars, now, priceCache, fetchCount,
                 lastLive,
                 portfolioVars>>

\* getQuote, from the answer of the cache read to the next await or return
CacheRead(p) ==
  /\ call[p].pc = "cacheRead"
  /\ UNCHANGED <<useMockData, cacheExpiryMinutes, folioVars, now, priceCache, fetchCount,
                 portfolioVars>>
  /\ \E dbOk \in BOOLEAN :
       LET rows == findBySymbol(ToUpperCase(call[p].sym))
           c == [call[p] EXCEPT
                   !.readErr = ~dbOk,
                   !.readAge = IF dbOk /\ rows # {}
                               THEN <<now - (CHOOSE r \in rows : TRUE).lastUpdated.v>>
                               ELSE <<>>]
           cachedQuote == getCachedPrice(c.sym, dbOk, now)
       IN IF cachedQuote.threw
          THEN Finish(p, c, [path |-> "throw", val |-> <<>>, threw |-> TRUE])
          ELSE IF cachedQuote.val # <<>>
          THEN Finish(p, c, [path |-> "cache", val |-> cachedQuote.val, threw |-> FALSE])
          ELSE IF useMockData
          THEN Finish(p, c, [path |-> "mock", val |-> getMockQuote(c.sym, now),
                             threw |-> FALSE])
          ELSE /\ call' = [call EXCEPT ![p] = [c EXCEPT !.pc = "fetch"]]
               /\ UNCHANGED lastLive

\* getQuote, the request to the upstream API and the handling of its answer
Fetch(p) ==
  /\ call[p].pc = "fetch"
  /\ fetchCount < MaxFetches
  /\ fetchCount' = fetchCount + 1
  /\ UNCHANGED <<useMockData, cacheExpiryMinutes, folioVars, now, priceCache,
                 portfolioVars>>
  /\ \E resp \in Responses(call[p].sym) :
       LET c == [call[p] EXCEPT !.fetches = call[p].fetches + 1,
                                !.resp = RespClass(resp)]
           out == LiveOutcome(c.sym, resp, now)
       IN IF out.path = "live"
          THEN /\ call' = [call EXCEPT ![p] =
                              [c EXCEPT !.pc = "cacheWrite", !.quote = out.val]]
               /\ UNCHANGED lastLive
          ELSE IF Retries(out)
          THEN call' = [call EXCEPT ![p] = c] /\ UNCHANGED lastLive
          ELSE Finish(p, c, [path |-> out.path, val |-> out.val, threw |-> FALSE])

\* getQuote, await priceCacheService.setCachedPrice(stockQuote) and the return
CacheWrite(p) ==
  /\ call[p].pc = "cacheWrite"
  /\ UNCHANGED <<useMockData, cacheExpiryMinutes, folioVars, now, fetchCount,
                 portfolioVars>>
  /\ \E dbOk \in BOOLEAN :
       /\ priceCache' = setCachedPrice(call[p].quote[1], dbOk)
       /\ Finish(p, [call[p] EXCEPT !.wrote = Upserts(call[p].quote[1], dbOk)],
                 [path |-> "live", val |-> call[p].quote, threw |-> FALSE])

\* the method that awaited getQuote goes on with the result
Continue(p) ==
  /\ call[p].pc = "ret"
  /\ call[p].op = "getMultipleQuotes" \/ req[p].pc = "idle"
  /\ UNCHANGED <<useMockData, cacheExpiryMinutes, folioVars, now, priceCache, fetchCount,
                 lastLive,
                 portfolioVars>>
  /\ LET c == call[p]
         n == Len(c.symbols)
         d == [c EXCEPT !.quotes = PushQuote(c.quotes, c.res.val),
                        !.results = Append(c.results, c.res.val),
                        !.ends = Append(c.ends, now)]
     IN call' = [call EXCEPT ![p] =
          IF c.op # "getMultipleQuotes" THEN Idle
          ELSE IF c.res.threw THEN [d EXCEPT !.pc = "done", !.threw = TRUE]
          ELSE IF ShouldSleep(d.i, n)
          THEN [d EXCEPT !.pc = "sleep", !.sleeps = d.sleeps + 1,
                         !.wake = now + SleepSeconds]
          ELSE IF d.i + 1 < n
          THEN EnterGetQuote([d EXCEPT !.i = d.i + 1,
                                       !.starts = Append(d.starts,
                                          [sym |-> d.symbols[d.i + 2], t |-> now])],
                             d.symbols[d.i + 2], now)
          ELSE [d EXCEPT !.pc = "done"]]

\* getMultipleQuotes, the timer of sleep(12000) fires
Wake(p) ==
  /\ call[p].pc = "sleep"
  /\ now >= call[p].wake
  /\ LET c == call[p]
     IN call' = [call EXCEPT ![p] =
                   EnterGetQuote([c EXCEPT !.i = c.i + 1,
                                           !.starts = Append(c.starts,
                                              [sym |-> c.symbols[c.i + 2], t |-> now])],
                                 c.symbols[c.i + 2], now)]
  /\ UNCHANGED <<useMockData, cacheExpiryMinutes, folioVars, now, priceCache, fetchCount,
                 lastLive,
                 portfolioVars>>

\* the caller of getMultipleQuotes has taken the result
ReturnMulti(p) ==
  /\ call[p].pc = "done"
  /\ req[p].pc = "idle"
  /\ call' = [call EXCEPT ![p] = Idle]
  /\ UNCHANGED <<useMockData, cacheExpiryMinutes, folioVars, now, priceCache, fetchCount,
                 lastLive,
                 portfolioVars>>

\* getCompanyInfo(symbol): no shared state but the requests it sends
GetCompanyInfo ==
  /\ fetchCount + getCompanyInfoRequests <= MaxFetches
  /\ fetchCount' = fetchCount + getCompanyInfoRequests
  /\ UNCHANGED <<useMockData, cacheExpiryMinutes, folioVars, now, priceCache, call, lastLive,
                 portfolioVars>>

\* searchSymbols(query): no shared state but the requests it sends
SearchSymbols ==
  /\ fetchCount + searchSymbolsRequests <= MaxFetches
  /\ fetchCount' = fetchCount + searchSymbolsRequests
  /\ UNCHANGED <<useMockData, cacheExpiryMinutes, folioVars, now, priceCache, call, lastLive,
                 portfolioVars>>

\* clearCachedPrice(symbol): priceCache.deleteBySymbol, a throw (a failing
\* database call, no such row) caught and dropped
ClearCachedPrice ==
  /\ \E symbol \in Symbols, dbOk \in BOOLEAN :
       priceCache' = IF dbOk THEN deleteBySymbol(symbol) ELSE priceCache
  /\ lastLive' = <<>>
  /\ UNCHANGED <<useMockData, cacheExpiryMinutes, folioVars, now, fetchCount, call,
                 portfolioVars>>

\* clearAllCache(): priceCache.deleteAll, a throw caught and dropped
ClearAllCache ==
  /\ \E dbOk \in BOOLEAN :
       priceCache' = IF dbOk THEN deleteAll ELSE priceCache
  /\ lastLive' = <<>>
  /\ UNCHANGED <<useMockData, cacheExpiryMinutes, folioVars, now, fetchCount, call,
                 portfolioVars>>

Next ==
  \/ Tick
  \/ GetCompanyInfo
  \/ SearchSymbols
  \/ \E p \in Procs : BeginGetQuote(p)
  \/ \E p \in Procs : BeginValidateSymbol(p)
  \/ \E p \in Procs : BeginGetMultipleQuotes(p)
  \/ \E p \in Procs : CacheRead(p)
  \/ \E p \in Procs : Fetch(p)
  \/ \E p \in Procs : CacheWrite(p)
  \/ \E p \in Procs : Continue(p)
  \/ \E p \in Procs : Wake(p)
  \/ \E p \in Procs : ReturnMulti(p)

Spec == Init /\ [][Next]_vars

(***************************************************************************)
(* The quote service with the administrative invalidation of the cache:    *)
(* getQuote calls, the clock, clearCachedPrice and clearAllCache.          *)
(***************************************************************************)
NextInvalidate ==
  \/ Tick
  \/ ClearCachedPrice
  \/ ClearAllCache
  \/ \E p \in Procs : BeginGetQuote(p)
  \/ \E p \in Procs : CacheRead(p)
  \/ \E p \in Procs : Fetch(p)
  \/ \E p \in Procs : CacheWrite(p)
  \/ \E p \in Procs : Continue(p)

SpecInvalidate == Init /\ [][NextInvalidate]_vars

(***************************************************************************)
(* getQuote calls of two callers running at the same time, each stretch    *)
(* between two awaits of one call a step of its own, with an API key (the  *)
(* cache is written in no other mode) and within one instant of the clock. *)
(***************************************************************************)
InitConcurrent == Init /\ ~useMockData

NextConcurrent ==
  \/ \E p \in Callers : BeginGetQuote(p)
  \/ \E p \in Callers : CacheRead(p)
  \/ \E p \in Callers : Fetch(p)
  \/ \E p \in Callers : CacheWrite(p)
  \/ \E p \in Callers : Continue(p)

SpecConcurrent == InitConcurrent /\ [][NextConcurrent]_vars

(***************************************************************************)
(* The route handlers createHolding, updatePortfolioPrices and editHolding *)
(* on one portfolio.  A handler awaiting getQuote or getMultipleQuotes     *)
(* runs it as call[p]; the handler's own steps are below.  The database    *)
(* answers every call of a handler, but rejects a NaN price and a second   *)
(* holding of a symbol.                                                    *)
(***************************************************************************)
ShareInputs == {0, 1}
EditShares == {0, 2}
HoldingIds == {"AAPL", "ZZZZ"}
Users == {"u1", "u2"}
PortfolioIds == {"P1", "P2"}

\* portfolio.findById(id): the rows found, none or one
portfolioFindById(id) == {f \in portfolios : f.id = id}

\* the checks without "if (portfolio.userId !== userId)"
AccessStatusAnyUser(pid, user) ==
  IF portfolioFindById(pid) = {} THEN 404 ELSE 0

\* "if (!portfolio)" and "if (portfolio.userId !== userId)": the status
\* answered, 0 to go on
AccessStatus(pid, user) ==
  IF portfolioFindById(pid) = {} THEN 404
  ELSE IF \E f \in portfolioFindById(pid) : f.userId # user THEN 403
  ELSE 0

\* the holdings of a portfolio: the holding table is kept per portfolio,
\* and a holding is known by its portfolio and its symbol
Rows(pid) == IF pid = "P1" THEN holdings ELSE others

\* the checks without "if (holding.portfolioId !== portfolioId)"
HoldingStatusAnyPortfolio(pid, user, hpid, id) ==
  IF AccessStatus(pid, user) # 0 THEN AccessStatus(pid, user)
  ELSE IF holdingFindBySymbol(Rows(hpid), id) = <<>> THEN 404
  ELSE 0

\* the checks that getHolding, editHolding and deleteHolding share: the
\* status answered, 0 to go on
HoldingStatus(pid, user, hpid, id) ==
  IF AccessStatus(pid, user) # 0 THEN AccessStatus(pid, user)
  ELSE IF holdingFindBySymbol(Rows(hpid), id) = <<>> THEN 404
  ELSE IF hpid # pid THEN 403
  ELSE 0

\* the holding table after a write to the holdings of pid
SetRows(pid, rows) ==
  IF pid = "P1" THEN holdings' = rows /\ others' = others
  ELSE others' = rows /\ holdings' = holdings

Responded(r, status) == [r EXCEPT !.pc = "responded", !.status = status]

\* the quote route, up to "await marketDataService.getQuote(...)"
BeginGetQuoteRoute(p) ==
  /\ call[p].pc = "idle"
  /\ req[p].pc = "idle"
  /\ served < MaxRequests
  /\ served' = served + 1
  /\ UNCHANGED <<useMockData, cacheExpiryMinutes, folioVars, now, priceCache, fetchCount,
                 lastLive, holdings>>
  /\ \E symbol \in Symbols :
       /\ req' = [req EXCEPT ![p] =
                    [NoRequest EXCEPT !.op = "quoteRoute", !.pc = "quote",
                                      !.symbol = ToUpperCase(symbol)]]
       /\ call' = [call EXCEPT ![p] =
                     EnterGetQuote([Idle EXCEPT !.op = "getQuote"],
                                   ToUpperCase(symbol), now)]

\* the quote route, from the return of getQuote to the response
GetQuoteRouteRespond(p) ==
  /\ req[p].op = "quoteRoute"
  /\ req[p].pc = "quote"
  /\ call[p].pc = "ret"
  /\ req' = [req EXCEPT ![p] =
               IF call[p].res.val = <<>> THEN Responded(@, 404)
               ELSE Responded([@ EXCEPT !.price = call[p].res.val[1].price], 200)]
  /\ call' = [call EXCEPT ![p] = Idle]
  /\ UNCHANGED <<useMockData, cacheExpiryMinutes, folioVars, now, priceCache, fetchCount,
                 lastLive, holdings, served>>

\* createHolding, up to "await marketDataService.getQuote(...)"
BeginCreateHolding(p) ==
  /\ call[p].pc = "idle"
  /\ req[p].pc = "idle"
  /\ served < MaxRequests
  /\ served' = served + 1
  /\ UNCHANGED <<useMockData, cacheExpiryMinutes, folioVars, now, priceCache, fetchCount,
                 lastLive, holdings>>
  /\ \E symbol \in Symbols, shares \in ShareInputs,
        user \in Users, pid \in PortfolioIds :
       LET r == [NoRequest EXCEPT !.op = "createHolding",
                                  !.user = user, !.pid = pid,
                                  !.symbol = ToUpperCase(symbol),
                                  !.shares = shares]
       IN IF shares <= 0
          THEN req' = [req EXCEPT ![p] = Responded(r, 400)] /\ UNCHANGED call
          ELSE IF AccessStatus(pid, user) # 0
          THEN /\ req' = [req EXCEPT ![p] = Responded(r, AccessStatus(pid, user))]
               /\ UNCHANGED call
          ELSE /\ req' = [req EXCEPT ![p] = [r EXCEPT !.pc = "quote"]]
               /\ call' = [call EXCEPT ![p] =
                             EnterGetQuote([Idle EXCEPT !.op = "getQuote"],
                                           ToUpperCase(symbol), now)]

\* createHolding, from the return of getQuote through getCompanyInfo to
\* "if (!quote)" and "await dbClient.holding.findBySymbol(...)"
CreateHoldingInfo(p) ==
  /\ req[p].op = "createHolding"
  /\ req[p].pc = "quote"
  /\ call[p].pc = "ret"
  /\ fetchCount + getCompanyInfoRequests <= MaxFetches
  /\ fetchCount' = fetchCount + getCompanyInfoRequests
  /\ call' = [call EXCEPT ![p] = Idle]
  /\ UNCHANGED <<useMockData, cacheExpiryMinutes, folioVars, now, priceCache, lastLive,
                 holdings, served>>
  /\ \E resp \in InfoResponses :
       LET quote == call[p].res.val
           companyInfo == getCompanyInfo(req[p].symbol, resp)
       IN req' = [req EXCEPT ![p] =
                    IF quote = <<>> THEN Responded(@, 400)
                    ELSE [@ EXCEPT !.pc = "find",
                                   !.price = quote[1].price,
                                   !.sector = SectorOf(companyInfo)]]

\* createHolding, the answer of holding.findBySymbol
CreateHoldingFind(p) ==
  /\ req[p].op = "createHolding"
  /\ req[p].pc = "find"
  /\ req' = [req EXCEPT ![p] =
               IF holdingFindBySymbol(Rows(@.pid), @.symbol) # <<>>
               THEN Responded(@, 409)
               ELSE [@ EXCEPT !.pc = "create"]]
  /\ UNCHANGED <<useMockData, cacheExpiryMinutes, folioVars, now, priceCache, fetchCount,
                 call, lastLive, holdings, served>>

\* a row created with a price of zero in place of the quote's
NewHoldingUnpriced(r) ==
  [symbol |-> r.symbol, shares |-> r.shares, currentPrice |-> Num(0),
   sector |-> r.sector, infoCalls |-> 1]

\* the data of holding.create: currentPrice: quote.price,
\* sector: companyInfo?.sector || null
NewHolding(r) ==
  [symbol |-> r.symbol, shares |-> r.shares, currentPrice |-> r.price,
   sector |-> r.sector, infoCalls |-> 1]

\* a table without the unique key on (portfolioId, symbol)
UniqueViolationNever(rows, r) == FALSE

\* the unique key "portfolioId_symbol" of the holding table: prisma's create
\* throws for a second row of the same portfolio and symbol
UniqueViolation(rows, r) == holdingFindBySymbol(rows, r.symbol) # <<>>

\* createHolding, holding.create and the response
CreateHoldingCreate(p) ==
  /\ req[p].op = "createHolding"
  /\ req[p].pc = "create"
  /\ LET r == req[p]
         rejected ==
           UniqueViolation(Rows(r.pid), r) \/ r.price.nan
     IN /\ SetRows(r.pid, IF rejected THEN Rows(r.pid)
                          ELSE <<NewHolding(r)>> \o Rows(r.pid))
        /\ req' = [req EXCEPT ![p] =
                     Responded(r, IF rejected THEN 500 ELSE 201)]
  /\ UNCHANGED <<useMockData, cacheExpiryMinutes, now, priceCache, fetchCount,
                 call, lastLive, served, portfolios, form>>

\* editHolding: the checks, holding.findById, holding.update, the response
EditHolding(p) ==
  /\ call[p].pc = "idle"
  /\ req[p].pc = "idle"
  /\ served < MaxRequests
  /\ served' = served + 1
  /\ UNCHANGED <<useMockData, cacheExpiryMinutes, now, priceCache, fetchCount,
                 call, lastLive, portfolios, form>>
  /\ \E id \in HoldingIds, hpid \in PortfolioIds, shares \in EditShares,
        user \in Users, pid \in PortfolioIds :
       LET r == [NoRequest EXCEPT !.op = "editHolding",
                                  !.user = user, !.pid = pid,
                                  !.symbol = id, !.hpid = hpid,
                                  !.shares = shares]
           status == HoldingStatus(pid, user, hpid, id)
       IN IF status # 0
          THEN /\ req' = [req EXCEPT ![p] = Responded(r, status)]
               /\ UNCHANGED <<holdings, others>>
          ELSE /\ SetRows(hpid, updateShares(Rows(hpid), id, shares))
               /\ req' = [req EXCEPT ![p] = Responded(r, 200)]

\* the response has been sent
Respond(p) ==
  /\ req[p].pc = "responded"
  /\ req' = [req EXCEPT ![p] = NoRequest]
  /\ UNCHANGED <<useMockData, cacheExpiryMinutes, folioVars, now, priceCache, fetchCount,
                 call, lastLive, holdings, served>>

\* updatePortfolioPrices, up to "await marketDataService.getMultipleQuotes"
BeginUpdatePrices(p) ==
  /\ call[p].pc = "idle"
  /\ req[p].pc = "idle"
  /\ served < MaxRequests
  /\ served' = served + 1
  /\ UNCHANGED <<useMockData, cacheExpiryMinutes, folioVars, now, priceCache, fetchCount,
                 lastLive, holdings>>
  /\ \E user \in Users, pid \in PortfolioIds :
       LET asked == [NoRequest EXCEPT !.op = "updatePortfolioPrices",
                                      !.user = user, !.pid = pid]
           r == [asked EXCEPT !.snapshot = Rows(pid),
                              !.symbols = SymbolsOf(Rows(pid)),
                              !.k = 1]
       IN IF AccessStatus(pid, user) # 0
          THEN /\ req' = [req EXCEPT ![p] =
                            Responded(asked, AccessStatus(pid, user))]
               /\ UNCHANGED call
          ELSE IF Len(Rows(pid)) = 0
          THEN req' = [req EXCEPT ![p] = Responded(r, 200)] /\ UNCHANGED call
          ELSE /\ req' = [req EXCEPT ![p] = [r EXCEPT !.pc = "quotes"]]
               /\ call' = [call EXCEPT ![p] =
                    EnterGetQuote(
                      [Idle EXCEPT !.op = "getMultipleQuotes",
                                   !.symbols = r.symbols,
                                   !.starts = <<[sym |-> r.symbols[1], t |-> now]>>],
                      r.symbols[1], now)]

\* updatePortfolioPrices, one turn of "for (const symbol of symbols)": the
\* lookup of the quote and, for a holding without sector, getCompanyInfo
\* and the sector updates of the symbol's holdings, taken as one step
UpdatePricesSymbol(p) ==
  /\ req[p].op = "updatePortfolioPrices"
  /\ req[p].pc = "quotes"
  /\ call[p].pc = "done"
  /\ req[p].k <= Len(req[p].symbols)
  /\ UNCHANGED <<useMockData, cacheExpiryMinutes, now, priceCache, lastLive,
                 served, portfolios, form>>
  /\ LET r == req[p]
         symbol == r.symbols[r.k]
         quote == FindQuote(call[p].quotes, symbol)
         holdingsForSymbol ==
           SelectSeq(r.snapshot,
                     LAMBDA h : ToUpperCase(h.symbol) = ToUpperCase(symbol))
         pushed == [r EXCEPT !.k = r.k + 1,
                             !.priceUpdates =
                                Append(r.priceUpdates,
                                       [symbol |-> ToUpperCase(symbol),
                                        price |-> quote.val[1].price])]
     IN IF quote.threw
        THEN /\ req' = [req EXCEPT ![p] =
                          Responded([r EXCEPT !.results = call[p].results], 500)]
             /\ call' = [call EXCEPT ![p] = Idle]
             /\ UNCHANGED <<holdings, others, fetchCount>>
        ELSE IF quote.val = <<>>
        THEN /\ req' = [req EXCEPT ![p] =
                          [r EXCEPT !.k = r.k + 1, !.errors = r.errors + 1]]
             /\ UNCHANGED <<call, holdings, others, fetchCount>>
        ELSE IF ~NeedsSector(holdingsForSymbol)
        THEN /\ req' = [req EXCEPT ![p] = pushed]
             /\ UNCHANGED <<call, holdings, others, fetchCount>>
        ELSE /\ fetchCount + getCompanyInfoRequests <= MaxFetches
             /\ fetchCount' = fetchCount + getCompanyInfoRequests
             /\ req' = [req EXCEPT ![p] = pushed]
             /\ UNCHANGED call
             /\ \E resp \in InfoResponses :
                  LET companyInfo == getCompanyInfo(symbol, resp)
                      counted == CountInfoCall(Rows(r.pid), symbol)
                  IN SetRows(r.pid,
                       IF SectorOf(companyInfo) # Null
                       THEN WriteSectors(counted, holdingsForSymbol,
                                         SectorOf(companyInfo))
                       ELSE counted)

\* updatePortfolioPrices, the price updates and the response
UpdatePricesApply(p) ==
  /\ req[p].op = "updatePortfolioPrices"
  /\ req[p].pc = "quotes"
  /\ call[p].pc = "done"
  /\ req[p].k > Len(req[p].symbols)
  /\ LET r == [req[p] EXCEPT !.results = call[p].results]
         applied == ApplyPrices(Rows(r.pid), r.snapshot, r.priceUpdates)
     IN /\ SetRows(r.pid, applied.table)
        /\ req' = [req EXCEPT ![p] =
                     IF applied.threw THEN Responded(r, 500)
                     ELSE [Responded(r, 200) EXCEPT
                             !.updated = Len(r.priceUpdates),
                             !.total = Len(r.symbols)]]
  /\ call' = [call EXCEPT ![p] = Idle]
  /\ UNCHANGED <<useMockData, cacheExpiryMinutes, now, priceCache, fetchCount,
                 lastLive, served, portfolios, form>>

(***************************************************************************)
(* The route handlers, one request at a time.  The tables outlive the      *)
(* process: a run starts from holdings that createHolding has made and     *)
(* from a cache row that a getQuote has stored.                            *)
(***************************************************************************)
StartHolding(symbol, sector) ==
  [symbol |-> symbol, shares |-> 1, currentPrice |-> Num(15000),
   sector |-> sector, infoCalls |-> 1]

\* a portfolio that createPortfolio has made for the user
StartPortfolio(id, userId) == [id |-> id, userId |-> userId, name |-> "Growth"]

StartTables ==
  {<<>>,
   <<StartHolding("AAPL", "Technology")>>,
   <<StartHolding("ZZZZ", Null)>>,
   <<StartHolding("ZZZZ", Null), StartHolding("AAPL", "Technology")>>}

StartCaches ==
  {{},
   {[symbol |-> "ZZZZ", price |-> Num(15000), change |-> Num(125),
     changePercent |-> Num(84), volume |-> Num(1000),
     lastUpdated |-> Num(0 - 300)]}}

InitHoldings ==
  /\ useMockData \in BOOLEAN
  /\ cacheExpiryMinutes = DefaultExpiryMinutes
  /\ now = 0
  /\ priceCache \in StartCaches
  /\ fetchCount = 0
  /\ call = [p \in Callers |-> Idle]
  /\ lastLive = <<>>
  /\ holdings \in StartTables
  /\ req = [p \in Callers |-> NoRequest]
  /\ served = 0
  /\ portfolios = {StartPortfolio("P1", "u1")}
  /\ others = <<>>
  /\ form = NoForm

NextHoldings ==
  \/ Tick
  \/ \E p \in Procs : BeginGetQuoteRoute(p)
  \/ \E p \in Procs : GetQuoteRouteRespond(p)
  \/ \E p \in Procs : CacheRead(p)
  \/ \E p \in Procs : Fetch(p)
  \/ \E p \in Procs : CacheWrite(p)
  \/ \E p \in Procs : Continue(p)
  \/ \E p \in Procs : Wake(p)
  \/ \E p \in Procs : BeginCreateHolding(p)
  \/ \E p \in Procs : CreateHoldingInfo(p)
  \/ \E p \in Procs : CreateHoldingFind(p)
  \/ \E p \in Procs : CreateHoldingCreate(p)
  \/ \E p \in Procs : BeginUpdatePrices(p)
  \/ \E p \in Procs : UpdatePricesSymbol(p)
  \/ \E p \in Procs : UpdatePricesApply(p)
  \/ \E p \in Procs : EditHolding(p)
  \/ \E p \in Procs : Respond(p)

SpecHoldings == InitHoldings /\ [][NextHoldings]_vars

(***************************************************************************)
(* Two refresh requests of the same portfolio in flight at once: each      *)
(* handler suspends at its awaits and the other runs, so both may have     *)
(* read the holdings (findByPortfolioId) before either writes a sector.    *)
(* The portfolio has one holding, so getMultipleQuotes never sleeps.       *)
(***************************************************************************)
InitRefreshRace ==
  /\ InitHoldings
  /\ ~useMockData
  /\ holdings = <<StartHolding("ZZZZ", Null)>>

NextRefreshRace ==
  \/ \E p \in Callers : BeginUpdatePrices(p)
  \/ \E p \in Callers : CacheRead(p)
  \/ \E p \in Callers : Fetch(p)
  \/ \E p \in Callers : CacheWrite(p)
  \/ \E p \in Callers : Continue(p)
  \/ \E p \in Callers : UpdatePricesSymbol(p)
  \/ \E p \in Callers : UpdatePricesApply(p)
  \/ \E p \in Callers : Respond(p)

SpecRefreshRace == InitRefreshRace /\ [][NextRefreshRace]_vars

(***************************************************************************)
(* Two createHolding requests in flight at once, for the portfolio of one  *)
(* user that holds AAPL or nothing.                                        *)
(***************************************************************************)
InitCreateRace ==
  /\ InitHoldings
  /\ holdings \in {<<>>, <<StartHolding("AAPL", "Technology")>>}

NextCreateRace ==
  \/ \E p \in Callers : BeginCreateHolding(p)
  \/ \E p \in Callers : CacheRead(p)
  \/ \E p \in Callers : Fetch(p)
  \/ \E p \in Callers : CacheWrite(p)
  \/ \E p \in Callers : CreateHoldingInfo(p)
  \/ \E p \in Callers : CreateHoldingFind(p)
  \/ \E p \in Callers : CreateHoldingCreate(p)
  \/ \E p \in Callers : Respond(p)

SpecCreateRace == InitCreateRace /\ [][NextCreateRace]_vars

(***************************************************************************)
(* The handlers of a portfolio and of one holding.  Each is taken as one   *)
(* step: it reads and writes the database only, and requests are served    *)
(* one at a time.                                                          *)
(***************************************************************************)
NameInputs == {"Income", "  ", "", Undefined}
TypeInputs == {Undefined, "BOGUS"}
ValidTypes == {"PERSONAL", "RETIREMENT", "TAXABLE", "OTHER"}

\* name.trim(), for the names above
Trim(name) == IF name = "  " THEN "" ELSE name

\* !body.name || body.name.trim().length === 0
NameMissing(name) ==
  name = Undefined \/ name = "" \/ Len(Trim(name)) = 0

\* body.type && !validTypes.includes(body.type)
InvalidType(type) == type # Undefined /\ type \notin ValidTypes

\* what the handlers below leave alone
serviceVars ==
  <<useMockData, cacheExpiryMinutes, now, priceCache, fetchCount, call,
    lastLive, form>>

\* a request enters a handler
Enter(p) ==
  /\ call[p].pc = "idle"
  /\ req[p].pc = "idle"
  /\ served < MaxRequests
  /\ served' = served + 1
  /\ UNCHANGED serviceVars

\* createPortfolio
CreatePortfolio(p) ==
  /\ Enter(p)
  /\ UNCHANGED <<holdings, others>>
  /\ \E user \in Users, name \in NameInputs, type \in TypeInputs :
       LET r == [NoRequest EXCEPT !.op = "createPortfolio", !.user = user,
                                  !.name = name, !.type = type]
           free == PortfolioIds \ {f.id : f \in portfolios}
           id == CHOOSE i \in free : TRUE
       IN IF NameMissing(name) \/ InvalidType(type)
          THEN /\ req' = [req EXCEPT ![p] = Responded(r, 400)]
               /\ UNCHANGED portfolios
          ELSE /\ free # {}
               /\ portfolios' = portfolios \cup
                    {[id |-> id, userId |-> user, name |-> Trim(name)]}
               /\ req' = [req EXCEPT ![p] = Responded([r EXCEPT !.pid = id], 201)]

\* if (body.name !== undefined) updateData.name = body.name.trim()
UpdatedName(f, name) == IF name = Undefined THEN f.name ELSE Trim(name)

\* editPortfolio
EditPortfolio(p) ==
  /\ Enter(p)
  /\ UNCHANGED <<holdings, others>>
  /\ \E user \in Users, pid \in PortfolioIds, name \in NameInputs,
        type \in TypeInputs :
       LET r == [NoRequest EXCEPT !.op = "editPortfolio", !.user = user,
                                  !.pid = pid, !.name = name, !.type = type]
           status == IF InvalidType(type) THEN 400 ELSE AccessStatus(pid, user)
       IN IF status # 0
          THEN /\ req' = [req EXCEPT ![p] = Responded(r, status)]
               /\ UNCHANGED portfolios
          ELSE /\ portfolios' =
                    {IF f.id = pid THEN [f EXCEPT !.name = UpdatedName(f, name)]
                     ELSE f : f \in portfolios}
               /\ req' = [req EXCEPT ![p] = Responded(r, 200)]

\* deletePortfolio; the holdings of the portfolio go with it
DeletePortfolio(p) ==
  /\ Enter(p)
  /\ \E user \in Users, pid \in PortfolioIds :
       LET r == [NoRequest EXCEPT !.op = "deletePortfolio", !.user = user,
                                  !.pid = pid]
       IN IF AccessStatus(pid, user) # 0
          THEN /\ req' = [req EXCEPT ![p] = Responded(r, AccessStatus(pid, user))]
               /\ UNCHANGED <<portfolios, holdings, others>>
          ELSE /\ portfolios' = portfolios \ portfolioFindById(pid)
               /\ SetRows(pid, <<>>)
               /\ req' = [req EXCEPT ![p] = Responded(r, 200)]

\* getPortfolio and getHoldings: the answer carries the portfolio's holdings
GetPortfolio(p) ==
  /\ Enter(p)
  /\ UNCHANGED <<portfolios, holdings, others>>
  /\ \E user \in Users, pid \in PortfolioIds,
        op \in {"getPortfolio", "getHoldings"} :
       LET r == [NoRequest EXCEPT !.op = op, !.user = user, !.pid = pid]
       IN req' = [req EXCEPT ![p] =
                    IF AccessStatus(pid, user) # 0
                    THEN Responded(r, AccessStatus(pid, user))
                    ELSE Responded([r EXCEPT !.returned = Rows(pid)], 200)]

\* holding.delete(id)
holdingDelete(table, id) == SelectSeq(table, LAMBDA h : h.symbol # id)

\* getHolding
GetHolding(p) ==
  /\ Enter(p)
  /\ UNCHANGED <<portfolios, holdings, others>>
  /\ \E id \in HoldingIds, hpid \in PortfolioIds,
        user \in Users, pid \in PortfolioIds :
       LET r == [NoRequest EXCEPT !.op = "getHolding", !.user = user,
                                  !.pid = pid, !.symbol = id, !.hpid = hpid]
           status == HoldingStatus(pid, user, hpid, id)
       IN req' = [req EXCEPT ![p] =
                    IF status # 0 THEN Responded(r, status)
                    ELSE Responded([r EXCEPT !.returned =
                                      holdingFindBySymbol(Rows(hpid), id)], 200)]

\* deleteHolding
DeleteHolding(p) ==
  /\ Enter(p)
  /\ UNCHANGED portfolios
  /\ \E id \in HoldingIds, hpid \in PortfolioIds,
        user \in Users, pid \in PortfolioIds :
       LET r == [NoRequest EXCEPT !.op = "deleteHolding", !.user = user,
                                  !.pid = pid, !.symbol = id, !.hpid = hpid]
           status == HoldingStatus(pid, user, hpid, id)
       IN IF status # 0
          THEN /\ req' = [req EXCEPT ![p] = Responded(r, status)]
               /\ UNCHANGED <<holdings, others>>
          ELSE /\ SetRows(hpid, holdingDelete(Rows(hpid), id))
               /\ req' = [req EXCEPT ![p] = Responded(r, 200)]

\* the tables of two users, each with a portfolio
InitFolios ==
  /\ useMockData \in BOOLEAN
  /\ cacheExpiryMinutes = DefaultExpiryMinutes
  /\ now = 0
  /\ priceCache = {}
  /\ fetchCount = 0
  /\ call = [p \in Callers |-> Idle]
  /\ lastLive = <<>>
  /\ holdings = <<StartHolding("AAPL", "Technology")>>
  /\ req = [p \in Callers |-> NoRequest]
  /\ served = 0
  /\ portfolios \in {{StartPortfolio("P1", "u1"), StartPortfolio("P2", "u2")},
                    {StartPortfolio("P1", "u1")}}
  /\ others = IF Cardinality(portfolios) = 2
              THEN <<StartHolding("ZZZZ", Null)>> ELSE <<>>
  /\ form = NoForm

NextFolios ==
  \/ Tick
  \/ \E p \in Procs : Wake(p)
  \/ \E p \in Procs : CreatePortfolio(p)
  \/ \E p \in Procs : EditPortfolio(p)
  \/ \E p \in Procs : DeletePortfolio(p)
  \/ \E p \in Procs : GetPortfolio(p)
  \/ \E p \in Procs : GetHolding(p)
  \/ \E p \in Procs : EditHolding(p)
  \/ \E p \in Procs : DeleteHolding(p)
  \/ \E p \in Procs : BeginCreateHolding(p)
  \/ \E p \in Procs : CreateHoldingInfo(p)
  \/ \E p \in Procs : CreateHoldingFind(p)
  \/ \E p \in Procs : CreateHoldingCreate(p)
  \/ \E p \in Procs : BeginUpdatePrices(p)
  \/ \E p \in Procs : UpdatePricesSymbol(p)
  \/ \E p \in Procs : UpdatePricesApply(p)
  \/ \E p \in Procs : CacheRead(p)
  \/ \E p \in Procs : Fetch(p)
  \/ \E p \in Procs : CacheWrite(p)
  \/ \E p \in Procs : Continue(p)
  \/ \E p \in Procs : Respond(p)

SpecFolios == InitFolios /\ [][NextFolios]_vars

(***************************************************************************)
(* AddHoldingForm.  Each change of the symbol input runs handleSymbolChange *)
(* to its await; the validations in flight are the quote requests of the   *)
(* callers, and each resumes when its own response arrives.                *)
(***************************************************************************)
TypedValues == {"AAPL", "ZZZZ", "ZZ", ""}
InvalidSymbol == "Invalid stock symbol"

\* handleSymbolChange(value), up to "await apiClient.getStockQuote(...)"
TypeSymbol(p) ==
  /\ call[p].pc = "idle"
  /\ req[p].pc = "idle"
  /\ served < MaxRequests
  /\ served' = served + 1
  /\ UNCHANGED <<useMockData, cacheExpiryMinutes, now, priceCache, fetchCount,
                 lastLive, holdings, portfolios, others>>
  /\ \E value \in TypedValues :
       /\ form' = [form EXCEPT !.symbol = ToUpperCase(value),
                               !.error = Null,
                               !.validatingSymbol = (Len(value) >= 1) \/ @,
                               !.typed = @ + 1,
                               !.checked = ""]
       /\ IF Len(value) >= 1
          THEN /\ req' = [req EXCEPT ![p] =
                            [NoRequest EXCEPT !.op = "getStockQuote",
                                              !.pc = "quote",
                                              !.symbol = ToUpperCase(value),
                                              !.k = form.typed + 1]]
               /\ call' = [call EXCEPT ![p] =
                             EnterGetQuote([Idle EXCEPT !.op = "getQuote"],
                                           ToUpperCase(value), now)]
          ELSE UNCHANGED <<req, call>>

\* the quote route answers the request of getStockQuote
StockQuoteRespond(p) ==
  /\ req[p].op = "getStockQuote"
  /\ req[p].pc = "quote"
  /\ call[p].pc = "ret"
  /\ req' = [req EXCEPT ![p] =
               IF call[p].res.val = <<>> THEN Responded(@, 404)
               ELSE Responded([@ EXCEPT !.price = call[p].res.val[1].price], 200)]
  /\ call' = [call EXCEPT ![p] = Idle]
  /\ UNCHANGED <<useMockData, cacheExpiryMinutes, folioVars, now, priceCache,
                 fetchCount, lastLive, holdings, served>>

\* handleSymbolChange, from the answer of getStockQuote: "if (!res.ok) throw",
\* the catch block and the finally block
ValidationDone(p) ==
  /\ req[p].op = "getStockQuote"
  /\ req[p].pc = "responded"
  /\ form' = [form EXCEPT
                !.error = IF req[p].status # 200 /\ Len(req[p].symbol) >= 3
                          THEN InvalidSymbol ELSE @,
                !.validatingSymbol = FALSE,
                !.checked = IF req[p].k # form.typed THEN @
                            ELSE IF req[p].status = 200 THEN "ok" ELSE "failed"]
  /\ req' = [req EXCEPT ![p] = NoRequest]
  /\ UNCHANGED <<useMockData, cacheExpiryMinutes, now, priceCache, fetchCount,
                 call, lastLive, holdings, served, portfolios, others>>

InitForm ==
  /\ InitHoldings
  /\ priceCache = {}
  /\ holdings = <<>>

NextForm ==
  \/ \E p \in Callers : TypeSymbol(p)
  \/ \E p \in Callers : CacheRead(p)
  \/ \E p \in Callers : Fetch(p)
  \/ \E p \in Callers : CacheWrite(p)
  \/ \E p \in Callers : StockQuoteRespond(p)
  \/ \E p \in Callers : ValidationDone(p)

SpecForm == InitForm /\ [][NextForm]_vars

(***************************************************************************)
(* Properties.                                                             *)
(***************************************************************************)
InTable(symbol) == ToUpperCase(symbol) \in DOMAIN mockData

\* the static-table quote of symbol stamped t, read off the table
TableQuote(symbol, t) ==
  <<[symbol |-> ToUpperCase(symbol),
     price |-> Num(mockData[ToUpperCase(symbol)].price),
     change |-> Num(mockData[ToUpperCase(symbol)].change),
     changePercent |-> Num(mockData[ToUpperCase(symbol)].changePercent),
     volume |-> Num(mockData[ToUpperCase(symbol)].volume),
     lastUpdated |-> Num(t)]>>

\* what a fallback to the static table returns for symbol at t
Fallback(symbol, t) == IF InTable(symbol) THEN TableQuote(symbol, t) ELSE <<>>

\* C1: with an API key and the 5-minute window, when a getQuote(S) has
\* fetched, cached and returned a live quote and the next getQuote(S) begins
\* within the window (its cache read not failing), that second call returns
\* the identical quote and sends no request to the upstream API.
C1_RepeatServedFromCache ==
  \A p \in Procs :
    LET c == call[p]
    IN (/\ c.pc = "ret"
        /\ ~useMockData
        /\ cacheExpiryMinutes = DefaultExpiryMinutes
        /\ c.after # <<>>
        /\ ~c.readErr
        /\ c.tStart - c.after[1].tEnd <= cacheExpiryMinutes * 60)
       => (c.res.val = <<c.after[1].val>> /\ c.fetches = 0)

C3_FallbackAndNullNotCached ==
  \A p \in Procs :
    LET c == call[p]
    IN (/\ c.pc = "ret"
        /\ \/ c.res.val = <<>>
           \/ InTable(c.sym) /\ c.res.val = TableQuote(c.sym, c.tEnd))
       => ~c.wrote

C3_Witness ==
  \E p \in Procs :
    /\ call[p].pc = "ret"
    /\ ~useMockData
    /\ call[p].fetches = 1
    /\ call[p].res.val = TableQuote("AAPL", now)
    /\ priceCache # {}

C5_StaleOrZeroWindowRefetches ==
  \A p \in Procs :
    LET c == call[p]
    IN (/\ c.pc = "ret"
        /\ ~useMockData
        /\ c.readAge # <<>>
        /\ \/ c.readAge[1] > cacheExpiryMinutes * 60
           \/ cacheExpiryMinutes = 0)
       => (c.res.path # "cache" /\ c.fetches = 1)

\* C5 amended: with an API key, a getQuote(S) that reads an entry older than
\* the expiry window (with a window of 0: an entry of any age above 0) does
\* not return the cached entry and sends a request to the upstream API.
C5_StaleEntryRefetched ==
  \A p \in Procs :
    LET c == call[p]
    IN (/\ c.pc = "ret"
        /\ ~useMockData
        /\ c.readAge # <<>>
        /\ c.readAge[1] > cacheExpiryMinutes * 60)
       => (c.res.path # "cache" /\ c.fetches = 1)

C5_Witness ==
  \E p \in Procs :
    /\ call[p].pc = "ret"
    /\ ~useMockData
    /\ cacheExpiryMinutes = DefaultExpiryMinutes
    /\ call[p].readAge # <<>>
    /\ call[p].readAge[1] > DefaultExpiryMinutes * 60
    /\ call[p].fetches = 1

\* C6: without an API key no request is ever sent to the upstream API,
\* whatever getQuote, getMultipleQuotes, getCompanyInfo, searchSymbols and
\* validateSymbol calls are made.
C6_NoKeyNoUpstreamRequest ==
  useMockData => (fetchCount = 0 /\ \A p \in Procs : call[p].fetches = 0)

C6_Witness ==
  \E p \in Procs :
    /\ useMockData
    /\ call[p].op = "getMultipleQuotes"
    /\ call[p].pc = "done"
    /\ Len(call[p].quotes) = 2
    /\ fetchCount = 0

\* C7: with an API key, getMultipleQuotes calls getQuote for its symbols in
\* input order, starts a call only when the one before has returned, and
\* lets the full 12 seconds pass between a return and the next call.
C7_SequentialWithFullDelay ==
  \A p \in Procs :
    LET c == call[p]
    IN (c.op = "getMultipleQuotes" /\ ~useMockData)
       => /\ Len(c.starts) <= Len(c.ends) + 1
          /\ \A k \in 1..Len(c.starts) : c.starts[k].sym = c.symbols[k]
          /\ \A k \in 1..Len(c.ends) : c.starts[k].t <= c.ends[k]
          /\ \A k \in 2..Len(c.starts) :
               c.starts[k].t >= c.ends[k - 1] + SleepSeconds

C7_Witness ==
  \E p \in Procs :
    /\ ~useMockData
    /\ call[p].op = "getMultipleQuotes"
    /\ Len(call[p].starts) = 2
    /\ call[p].pc = "ret"

\* C8: getQuote never throws to its caller: whatever fails inside (the cache
\* read, the live call, the cache write), it returns a quote or null.
C8_GetQuoteNeverThrows ==
  \A p \in Procs :
    /\ call[p].pc = "ret" => ~call[p].res.threw
    /\ ~call[p].threw

C8_Witness ==
  \E p \in Procs :
    /\ call[p].pc = "ret"
    /\ call[p].readErr
    /\ call[p].resp = "transport"
    /\ call[p].res.val # <<>>

C10_UnparsedFieldIsFetchFailure ==
  \A p \in Procs :
    LET c == call[p]
    IN (c.pc = "ret" /\ ~useMockData /\ c.resp = "unparsable")
       => (c.res.val = Fallback(c.sym, c.tEnd) /\ ~c.wrote)

AsRow(quote) ==
  [symbol |-> ToUpperCase(quote.symbol), price |-> quote.price,
   change |-> quote.change, changePercent |-> quote.changePercent,
   volume |-> quote.volume, lastUpdated |-> quote.lastUpdated]

\* C13: getQuote("aapl") and getQuote("AAPL") read and write the same cache
\* entry and return identical results, with and without an API key: in
\* every state the cache read, the static lookup, the request sent and the
\* handling of each answer are the same for both spellings; a call of
\* either spelling that is served from the cache returns the row stored
\* under "AAPL", one that cached a live quote has stored it under "AAPL",
\* and one that fell back returns the static quote of "AAPL".
C13_SymbolNormalization ==
  /\ \A dbOk \in BOOLEAN :
       getCachedPrice("aapl", dbOk, now) = getCachedPrice("AAPL", dbOk, now)
  /\ getMockQuote("aapl", now) = getMockQuote("AAPL", now)
  /\ Responses("aapl") = Responses("AAPL")
  /\ \A resp \in Responses("aapl") :
       LiveOutcome("aapl", resp, now) = LiveOutcome("AAPL", resp, now)
  /\ \A p \in Procs :
       LET c == call[p]
       IN (c.pc = "ret" /\ c.sym \in {"aapl", "AAPL"})
          => /\ c.res.path = "cache"
                  => \E r \in priceCache :
                       r.symbol = "AAPL" /\ c.res.val = <<r>>
             /\ (c.res.path = "live" /\ c.wrote)
                  => \E r \in priceCache :
                       r.symbol = "AAPL" /\ r = AsRow(c.res.val[1])
             /\ c.res.path \in {"mock", "notOk", "apiError", "catch"}
                  => c.res.val = TableQuote("AAPL", c.tEnd)

\* a call for "aapl" about to be served the entry a call for "AAPL" stored
C13_Witness ==
  \E p \in Procs :
    /\ call[p].pc = "cacheRead"
    /\ call[p].sym = "aapl"
    /\ lastLive # <<>>
    /\ lastLive[1].sym = "AAPL"
    /\ getCachedPrice("aapl", TRUE, now).val = <<AsRow(lastLive[1].val)>>

\* C17: every quote stored in the cache and every quote returned by getQuote
\* has a price that is a number and is not below 0, whatever the upstream
\* API answers.
C17_PriceNeverNegative ==
  /\ \A r \in priceCache : ~r.price.nan /\ r.price.v >= 0
  /\ \A p \in Procs :
       (call[p].pc = "ret" /\ call[p].res.val # <<>>)
         => (~call[p].res.val[1].price.nan /\ call[p].res.val[1].price.v >= 0)

\* the quotes among the results of the getQuote calls, in the order of the calls
RECURSIVE NonNull(_)
NonNull(results) ==
  IF results = <<>> THEN <<>> ELSE results[1] \o NonNull(Tail(results))

\* C18: getMultipleQuotes calls getQuote once for each symbol of its input,
\* in input order, and returns exactly the results that are not null, in
\* that order: a symbol is missing from the result if and only if its
\* getQuote returned null.
C18_ReturnsNonNullInOrder ==
  \A p \in Procs :
    LET c == call[p]
    IN c.op = "getMultipleQuotes"
       => /\ c.quotes = NonNull(c.results)
          /\ c.pc = "ret"
               => (Len(c.results) = c.i /\ c.sym = c.symbols[c.i + 1])
          /\ c.pc = "done" => Len(c.results) = Len(c.symbols)

C18_Witness ==
  \E p \in Procs :
    /\ call[p].op = "getMultipleQuotes"
    /\ call[p].pc = "done"
    /\ call[p].symbols = <<"ZZZZ", "aapl">>
    /\ call[p].results[1] = <<>>
    /\ Len(call[p].quotes) = 1
    /\ call[p].quotes[1].symbol = "AAPL"

\* C20: a cache read never removes or modifies an entry and nothing sweeps
\* the cache as time passes: a row leaves the table or changes only when a
\* getQuote that fetched a live quote for that symbol stores it, or when
\* clearCachedPrice or clearAllCache removes it; until then a stale row
\* stays as it is, and a read that finds it stale does not return it.
C20_ReadsLeaveEntriesAlone ==
  [][/\ \A p \in Procs :
          (call[p].pc = "cacheRead" /\ call'[p].pc # "cacheRead")
            => /\ priceCache' = priceCache
               /\ \A r \in findBySymbol(call[p].sym) :
                    now - r.lastUpdated.v > cacheExpiryMinutes * 60
                      => (call'[p].pc = "fetch" \/ call'[p].res.path = "mock")
     /\ now' # now => priceCache' = priceCache
     /\ \A r \in priceCache :
          r \notin priceCache'
            => \/ \E p \in Procs :
                    /\ call[p].pc = "cacheWrite"
                    /\ call'[p].wrote
                    /\ call[p].fetches = 1
                    /\ ToUpperCase(call[p].quote[1].symbol) = r.symbol
               \/ ClearCachedPrice
               \/ ClearAllCache]_vars

\* a read has found a stale row, left it in the table and gone on to fetch
C20_Witness ==
  \E p \in Procs :
    /\ call[p].pc = "fetch"
    /\ call[p].readAge # <<>>
    /\ call[p].readAge[1] > cacheExpiryMinutes * 60
    /\ \E r \in priceCache :
         /\ r.symbol = ToUpperCase(call[p].sym)
         /\ now - r.lastUpdated.v = call[p].readAge[1]

\* C11: under any interleaving of getQuote calls running at the same time,
\* the cache holds at most one row for an upper-cased symbol, the table
\* changes only when an upsert of a call completes, and after that step the
\* row of the symbol is that call's quote in all of price, change,
\* changePercent, volume and lastUpdated, every other row being left as it
\* was: the row is the quote of the last upsert to complete.
C11_LastWriterWins ==
  [][/\ \A r1, r2 \in priceCache' : r1.symbol = r2.symbol => r1 = r2
     /\ \A r \in priceCache' : r.symbol = ToUpperCase(r.symbol)
     /\ priceCache' # priceCache
          => \E p \in Callers :
               /\ call[p].pc = "cacheWrite"
               /\ call'[p].pc = "ret"
               /\ call'[p].wrote
               /\ AsRow(call[p].quote[1]) \in priceCache'
               /\ \A r \in priceCache \cup priceCache' :
                    r.symbol # AsRow(call[p].quote[1]).symbol
                      => (r \in priceCache /\ r \in priceCache')]_vars

\* two calls for one symbol have both read the cache before either wrote
\* (each found no row), have both fetched and stored, with different quotes;
\* the row is the quote of one of them
C11_Witness ==
  /\ cacheExpiryMinutes = DefaultExpiryMinutes
  /\ call[1].pc = "ret" /\ call[1].wrote
  /\ call[2].pc = "ret" /\ call[2].wrote
  /\ ~call[1].readErr /\ call[1].readAge = <<>>
  /\ ~call[2].readErr /\ call[2].readAge = <<>>
  /\ AsRow(call[1].quote[1]).symbol = AsRow(call[2].quote[1]).symbol
  /\ call[1].quote # call[2].quote
  /\ AsRow(call[2].quote[1]) \in priceCache

\* C14: across any sequence of createHolding and updatePortfolioPrices
\* requests, getCompanyInfo is called at most once for a holding.
C14_CompanyInfoOncePerHolding ==
  \A k \in DOMAIN holdings : holdings[k].infoCalls <= 1

\* C15: a step of updatePortfolioPrices calls getCompanyInfo for a symbol
\* only when a holding of that symbol, as the request read the portfolio,
\* has no sector, and it leaves the sector of every holding that has one in
\* the table as it is.
C15_SectorFetchedOnlyWhenUnset ==
  [][\A p \in Callers :
       (req[p].op = "updatePortfolioPrices" /\ req'[p] # req[p])
         => \A k \in DOMAIN holdings :
              /\ holdings'[k].infoCalls > holdings[k].infoCalls
                   => \E j \in DOMAIN req[p].snapshot :
                        /\ req[p].snapshot[j].symbol = holdings[k].symbol
                        /\ req[p].snapshot[j].sector = Null
              /\ holdings[k].sector # Null
                   => holdings'[k].sector = holdings[k].sector]_vars

\* the place of a symbol in the request's list of unique symbols
SymbolIndex(symbols, symbol) ==
  CHOOSE i \in DOMAIN symbols : symbols[i] = symbol

\* C16: a refresh in which some symbol resolved to no quote answers 200 with
\* updated + errors = total = number of unique symbols, every holding of a
\* resolved symbol has that quote's price and every holding of an
\* unresolved symbol has the currentPrice it had before.
C16_PartialCompletionIsNormal ==
  \A p \in Procs :
    (/\ req[p].op = "updatePortfolioPrices"
     /\ req[p].pc = "responded"
     /\ Len(req[p].symbols) > 0
     /\ Len(req[p].results) = Len(req[p].symbols)
     /\ \E i \in DOMAIN req[p].results : req[p].results[i] = <<>>)
      => /\ req[p].status = 200
         /\ req[p].updated + req[p].errors = req[p].total
         /\ req[p].total = Len(req[p].symbols)
         /\ \A k \in DOMAIN req[p].snapshot :
              LET res == req[p].results[SymbolIndex(req[p].symbols,
                                                    req[p].snapshot[k].symbol)]
              IN holdings[k].currentPrice =
                   IF res # <<>> THEN res[1].price
                   ELSE req[p].snapshot[k].currentPrice

\* C19: the currentPrice and the sector of a holding change only in a step
\* of an updatePortfolioPrices request: getQuote calls, cache writes, the
\* clock and editHolding leave both as they are.
C19_SnapshotChangesOnlyOnRefresh ==
  [][\A k \in DOMAIN holdings, j \in DOMAIN holdings' :
       (/\ holdings'[j].symbol = holdings[k].symbol
        /\ \/ holdings'[j].currentPrice # holdings[k].currentPrice
           \/ holdings'[j].sector # holdings[k].sector)
         => \E p \in Procs :
              /\ req[p].op = "updatePortfolioPrices"
              /\ req'[p] # req[p]]_vars

\* editHolding has changed the shares of a holding, and afterwards the
\* quote route has answered, and getQuote has cached, a price for its
\* symbol that is not the holding's currentPrice
C19_Witness ==
  \E k \in DOMAIN holdings, p \in Procs :
    /\ holdings[k].shares \in EditShares
    /\ req[p].op = "quoteRoute"
    /\ req[p].pc = "responded"
    /\ req[p].status = 200
    /\ req[p].symbol = holdings[k].symbol
    /\ req[p].price # holdings[k].currentPrice
    /\ \E row \in priceCache :
         /\ row.symbol = holdings[k].symbol
         /\ row.price = req[p].price

\* C21: a getQuote call sends at most one request to the upstream API; after
\* a transport failure, an undecodable body or a rate-limit answer it has
\* sent exactly one and returns by a fallback branch.
C21_AtMostOneLiveRequest ==
  \A p \in Procs :
    /\ call[p].fetches <= 1
    /\ (call[p].pc = "ret"
        /\ call[p].resp \in {"transport", "undecodable", "indicator"})
         => /\ call[p].fetches = 1
            /\ call[p].res.path \in {"catch", "notOk", "apiError"}

\* getQuote has returned after a rate-limit answer, with requests to spare
C21_Witness ==
  \E p \in Procs :
    /\ call[p].pc = "ret"
    /\ call[p].resp = "indicator"
    /\ call[p].res.path = "apiError"
    /\ call[p].fetches = 1
    /\ fetchCount < MaxFetches

\* how far a getMultipleQuotes call has come: six units per symbol, the
\* position inside the turn of the loop added
LoopMeasure(c) ==
  IF c.pc = "done" THEN 6 * Len(c.symbols)
  ELSE 6 * c.i + (CASE c.pc = "cacheRead" -> 1
                    [] c.pc = "fetch" -> 2
                    [] c.pc = "cacheWrite" -> 3
                    [] c.pc = "ret" -> 4
                    [] OTHER -> 5)

\* C29: getMultipleQuotes terminates after exactly len(symbols) getQuote
\* calls: each of its steps brings it nearer to the return, and at the
\* return it has made len(symbols) calls and, with an API key, slept
\* max(len(symbols) - 1, 0) times, from the cache or not; without a key it
\* never sleeps.
C29_TerminatesWithExactCounts ==
  [][\A p \in Procs :
       LET c == call[p]
           d == call'[p]
           n == Len(d.symbols)
       IN d.op = "getMultipleQuotes"
            => /\ (c.op = "getMultipleQuotes" /\ d # c)
                    => LoopMeasure(d) > LoopMeasure(c)
               /\ LoopMeasure(d) <= 6 * n
               /\ Len(d.starts) <= n
               /\ useMockData => d.sleeps = 0
               /\ d.pc = "done"
                    => /\ Len(d.starts) = n
                       /\ Len(d.results) = n
                       /\ Len(d.ends) = n
                       /\ d.sleeps = IF useMockData \/ n = 0 THEN 0 ELSE n - 1]_vars

\* with an API key, getMultipleQuotes of two symbols has returned after one
\* sleep, its last quote served from the cache
C29_Witness ==
  \E p \in Procs :
    /\ ~useMockData
    /\ call[p].op = "getMultipleQuotes"
    /\ call[p].pc = "done"
    /\ Len(call[p].symbols) = 2
    /\ Len(call[p].results) = 2
    /\ call[p].sleeps = 1
    /\ call[p].res.path = "cache"

\* C24: the quote that getQuote(S) returns carries symbol = upper-case(S),
\* and a live quote that was cached is in the cache under that key.
C24_QuoteCarriesRequestedSymbol ==
  \A p \in Procs :
    (call[p].pc = "ret" /\ call[p].res.val # <<>>)
      => /\ call[p].res.val[1].symbol = ToUpperCase(call[p].sym)
         /\ (call[p].res.path = "live" /\ call[p].wrote)
              => \E row \in priceCache : row.symbol = ToUpperCase(call[p].sym)

\* C28: createHolding creates a holding only when getQuote for the
\* upper-cased symbol returned a quote: on a null quote it answers 400 and
\* the holdings stay as they are, and a holding that is created has the
\* returned quote's price as its currentPrice.
C28_CreateNeedsQuote ==
  [][\A p \in Procs :
       /\ (req[p].op = "createHolding" /\ req[p].pc = "quote"
           /\ req'[p] # req[p])
            => /\ call[p].sym = req[p].symbol
               /\ holdings' = holdings
               /\ IF call[p].res.val = <<>>
                  THEN req'[p].pc = "responded" /\ req'[p].status = 400
                  ELSE req'[p].pc = "find"
                       /\ req'[p].price = call[p].res.val[1].price
       /\ (req[p].op = "createHolding" /\ req[p].pc = "find")
            => (holdings' = holdings /\ req'[p].price = req[p].price)
       /\ Len(holdings') > Len(holdings)
            => /\ req[p].op = "createHolding"
               /\ req[p].pc = "create"
               /\ req'[p].status = 201
               /\ Tail(holdings') = holdings
               /\ holdings'[1].symbol = req[p].symbol
               /\ holdings'[1].currentPrice = req[p].price]_vars

\* both outcomes have happened: a holding created at a quote's price that
\* is not the price of the holdings the run started from, and a create
\* answered 400 after a null quote
C28_Witness ==
  \E p \in Procs :
    /\ Len(holdings) > 0
    /\ holdings[1].currentPrice # Num(15000)
    /\ holdings[1].infoCalls = 1
    /\ req[p].op = "createHolding"
    /\ req[p].pc = "responded"
    /\ req[p].status = 400
    /\ req[p].shares > 0
    /\ req[p].symbol # holdings[1].symbol

\* C25: every holding in the table has shares > 0, whatever createHolding
\* and editHolding requests have been served.
C25_SharesStayPositive ==
  \A pid \in PortfolioIds :
    \A k \in DOMAIN Rows(pid) : Rows(pid)[k].shares > 0

\* C26: every portfolio in the table has a name that is not empty after
\* trimming, whatever createPortfolio and editPortfolio requests have been
\* served.
C26_PortfolioNameNotEmpty ==
  \A f \in portfolios : f.name # Undefined /\ Len(Trim(f.name)) > 0

HoldingOps == {"getHolding", "editHolding", "deleteHolding"}

\* the holding that a request names is in the table
HoldingExists(r) == holdingFindBySymbol(Rows(r.hpid), r.symbol) # <<>>

\* the holdings of a portfolio after the step
RowsAfter(pid) == IF pid = "P1" THEN holdings' ELSE others'

OtherPortfolio(pid) == IF pid = "P1" THEN "P2" ELSE "P1"

\* a step that returns no holding and leaves the holding table as it is
NothingDone(p) ==
  /\ req'[p].returned = <<>>
  /\ holdings' = holdings
  /\ others' = others

PathOps ==
  {"getPortfolio", "editPortfolio", "deletePortfolio", "getHoldings",
   "createHolding", "updatePortfolioPrices",
   "getHolding", "editHolding", "deleteHolding"}

\* process p takes in a request of a user for a portfolio of another user
NonOwnerRequest(p) ==
  /\ req[p].pc = "idle"
  /\ req'[p].pc # "idle"
  /\ req'[p].op \in PathOps
  /\ \E f \in portfolios : f.id = req'[p].pid /\ f.userId # req'[p].user

\* the step changes no portfolio, no holding and no cache entry, and makes
\* no call of the market data service
NothingTouched ==
  UNCHANGED <<portfolios, holdings, others, priceCache, fetchCount, call,
              lastLive>>

\* the body of the request fails the validation of its handler
InvalidBody(r) ==
  \/ r.op = "createHolding" /\ r.shares <= 0
  \/ r.op = "editPortfolio" /\ InvalidType(r.type)

NoDuplicates(rows) ==
  \A i, j \in 1..Len(rows) :
    ToUpperCase(rows[i].symbol) = ToUpperCase(rows[j].symbol) => i = j

\* caller p gets the answer of createHolding in this step
CreateAnswered(p) ==
  /\ req[p].pc # "responded"
  /\ req'[p].pc = "responded"
  /\ req'[p].op = "createHolding"

\* the portfolio of the request holds the symbol of the request
Held(r) == holdingFindBySymbol(Rows(r.pid), r.symbol) # <<>>

\* C23, as stated: no portfolio ever has two holdings with the same
\* upper-cased symbol, and a create by the owner, with a valid body, for a
\* symbol that the portfolio holds is answered 409 and changes nothing.
C23_DuplicateIs409 ==
  /\ [](NoDuplicates(holdings) /\ NoDuplicates(others))
  /\ [][\A p \in Callers :
          (CreateAnswered(p) /\ req[p].pc # "idle" /\ Held(req'[p]))
            => /\ req'[p].status = 409
               /\ UNCHANGED <<holdings, others>>]_vars

\* C23, amended: no portfolio ever has two holdings with the same
\* upper-cased symbol.  A create for a symbol that the portfolio holds
\* never creates and changes nothing; it is answered 409 when it comes to
\* the lookup of the holding, 400 when the body is invalid or getQuote
\* returns null, 404 or 403 on the portfolio checks, and 500 when the
\* holding was created by another request after the lookup.  201 is
\* answered only for a symbol that was not held, with one row added.
C23_NoDuplicateHolding ==
  /\ [](NoDuplicates(holdings) /\ NoDuplicates(others))
  /\ [][\A p \in Callers :
          CreateAnswered(p)
            => LET r == req'[p]
               IN /\ Held(r)
                       => /\ UNCHANGED <<holdings, others>>
                          /\ r.status =
                               CASE req[p].pc = "find" -> 409
                                 [] req[p].pc = "create" -> 500
                                 [] req[p].pc = "quote" -> 400
                                 [] OTHER ->
                                      IF r.shares <= 0 THEN 400
                                      ELSE AccessStatus(r.pid, r.user)
                  /\ r.status = 201
                       => /\ ~Held(r)
                          /\ Len(RowsAfter(r.pid)) = Len(Rows(r.pid)) + 1
                          /\ RowsAfter(OtherPortfolio(r.pid)) =
                               Rows(OtherPortfolio(r.pid))
                  /\ r.status = 409 => Held(r)]_vars

\* two creates for the same symbol were in flight; one has created the
\* holding and the other, which had found none, is answered 500
C23_Witness ==
  \E p \in Callers :
    /\ req[p].op = "createHolding"
    /\ req[p].pc = "responded"
    /\ req[p].status = 500
    /\ holdingFindBySymbol(Rows(req[p].pid), req[p].symbol) # <<>>
    /\ ~req[p].price.nan

\* C30: once every validation that was started has completed, the form
\* shows 'Invalid stock symbol' exactly when the validation of the symbol
\* typed last has failed for a symbol of three characters or more.
C30_ErrorReflectsLatestSymbol ==
  (form.typed > 0 /\ \A p \in Callers : req[p].op # "getStockQuote")
    => (form.error = InvalidSymbol
          <=> (form.checked = "failed" /\ Len(form.symbol) >= 3))

====
